---- MODULE Spec2Model ----
(***************************************************************************)
(* Model of the player engine of voru (src/src/player.rs): the queue, the  *)
(* playback backend and the operations that mutate them.                   *)
(*                                                                         *)
(* Indices are 0-based as in the source; a Vec is a sequence, so the       *)
(* element at index i of a Vec q is q[i + 1].  An Option is a sequence of  *)
(* length at most one: None is << >> and Some(x) is <<x>>.                 *)
(*                                                                         *)
(* Every method of Player is an operator from the player (a record of the  *)
(* struct's fields) and the call's arguments to a record                   *)
(*   [p |-> the player when the call ends, r |-> the call's result,        *)
(*    w |-> whether the engine thread waited in Mutex::lock during it]     *)
(* where r is "Ok", the name of a PlaybackError variant, or "Panic" when   *)
(* the call aborts the process (p is then the player at the panic).        *)
(***************************************************************************)
EXTENDS Integers, Sequences, FiniteSets, TLC

VARIABLES
    player,     \* the Player struct
    steps,      \* history: the steps left before the observed call
    pre,        \* history: the player when the observed call started
    op,         \* history: the observed call, its arguments, whether it
                \* waited for the snapshot mutex and, for a tick, whether
                \* its try_lock and that of the play it makes found the
                \* mutex held
    result,     \* history: what the observed call returned
    watched,    \* history: the calls that may be the observed one
    channel     \* the messages sent to the main loop and not yet received

vars == <<player, steps, pre, op, result, watched, channel>>

----------------------------------------------------------------------------
(* Bounds of the model *)

\* The longest queue the model builds.
MaxQueue == 3

\* The steps a behaviour takes before the observed call.
MaxSteps == 2

\* The same for the behaviours of playing, ending and ticking.
MaxTickSteps == 4

\* The longest Duration, in seconds: Duration::MAX scaled down to a value
\* above every duration and position of the model.
MaxDuration == 10

----------------------------------------------------------------------------
(* Option *)

None == << >>
Some(x) == <<x>>
IsSome(o) == o # None
Unwrap(o) == o[1]

----------------------------------------------------------------------------
(* The library: tracks and playlists, fixed when the player is built *)

\* Track ids (Track::id), given out by TRACK_ID when the playlists load.
TrackIds == {1, 2}

\* TrackData::duration of each track, in seconds.
TrackDuration(id) == IF id = 1 THEN 2 ELSE 3

\* TrackData::artist: the first track is tagged with one, the second not.
TrackArtist(id) == IF id = 1 THEN <<"artist">> ELSE << >>

\* The playlists loaded from the configuration, as sequences of track ids.
UserPlaylists == << <<1, 2>> >>

RECURSIVE Concat(_)
Concat(ss) == IF ss = << >> THEN << >> ELSE Head(ss) \o Concat(Tail(ss))

\* Player::new puts the "*" playlist, holding every track, at index 0.
playlists == << Concat(UserPlaylists) >> \o UserPlaylists

\* QueueTrack::Signle(track) carries no playlist index.
Signle == -1

\* A queue entry, an Rc<QueueTrack>: the track it derefs to, the playlist
\* index of QueueTrack::Playlist (Signle otherwise) and rc, which tells
\* apart the allocations that wrap the same track with the same index.
\* Two entries are the same Rc exactly when the records are equal.
QueueTrack(id, pl, rc) == [id |-> id, pl |-> pl, rc |-> rc]

\* Track::duration of the track an entry derefs to.
duration(t) == TrackDuration(t.id)

Range(s) == {s[i] : i \in DOMAIN s}

\* The entries that are alive in player p.
Live(p) == Range(p.queue) \cup Range(p.cur_track)

\* Rc::new: an allocation that is none of the entries in live.
RcNew(id, pl, live) ==
    LET used == {e.rc : e \in {x \in live : x.id = id /\ x.pl = pl}}
    IN  QueueTrack(id, pl, CHOOSE n \in 0..Cardinality(live) : n \notin used)

----------------------------------------------------------------------------
(* usize and Duration *)

\* Ord::min
Min(a, b) == IF a <= b THEN a ELSE b

\* saturating_sub of usize and of Duration
SaturatingSub(a, b) == IF a >= b THEN a - b ELSE 0

----------------------------------------------------------------------------
(* Vec *)

\* Vec::remove(index), for index < len.
VecRemove(q, index) == SubSeq(q, 1, index) \o SubSeq(q, index + 2, Len(q))

\* Vec::insert(index, item), for index <= len.
VecInsert(q, index, item) ==
    SubSeq(q, 1, index) \o <<item>> \o SubSeq(q, index + 1, Len(q))

\* A move that exchanges the two entries.
Mutant_move_to_Swaps(q, from_index, to_index) ==
    [q EXCEPT ![from_index + 1] = q[to_index + 1],
              ![to_index + 1] = q[from_index + 1]]

\* impl MoveTo for Vec<T>.
move_to(q, from_index, to_index) ==
    VecInsert(VecRemove(q, from_index), to_index, q[from_index + 1])

\* The orders a Vec of n elements can be left in: perm[i] is the old
\* position of the element that ends at position i.
Perms(n) == {f \in [1..n -> 1..n] : \A i, j \in 1..n : f[i] = f[j] => i = j}

\* impl Shuffle for Vec<T>: sort_by with a comparator that answers at
\* random rearranges the elements and neither drops nor copies one; perm
\* is the order it happens to produce.
shuffle(q, perm) ==
    IF q = << >> THEN q ELSE [i \in 1..Len(q) |-> q[perm[i]]]

\* Iterator::position with the test |t| t.id == id: the first index whose
\* entry derefs to the track with that id.
Position(q, id) ==
    LET hits == {i \in 1..Len(q) : q[i].id = id}
    IN  IF hits = {} THEN None
        ELSE Some((CHOOSE i \in hits : \A j \in hits : i <= j) - 1)

RECURSIVE SumDuration(_)
SumDuration(q) ==
    IF q = << >> THEN 0 ELSE duration(Head(q)) + SumDuration(Tail(q))

----------------------------------------------------------------------------
(* Results *)

Ret(p, r) == [p |-> p, r |-> r, w |-> FALSE]

\* Mutex::lock on the snapshot: when the remote-control thread holds the
\* mutex (locked), the engine thread waits until it is released, and the
\* call then goes on as it does with the mutex free.
Lock(ret, locked) == [ret EXCEPT !.w = @ \/ locked]

\* The `?` operator returns early with a result that is not Ok.
IsErr(ret) == ret.r # "Ok"

----------------------------------------------------------------------------
(* Playback *)

\* A fresh rodio Sink with one source appended: playing, at volume 1.0.
\* advanced is history: the current index at which handle_tick called
\* play_next for this session, None while it has not.
NewSink ==
    [paused |-> FALSE, empty |-> FALSE, volume |-> 100, pos |-> 0,
     advanced |-> None]

\* Sink::stop: the sink drops its source.
SinkStop(sink) == [sink EXCEPT !.empty = TRUE]

\* What the environment answers during a call is the record e:
\*   e.io      "Ok", "Io" when File::open fails, "Play" when the sink or
\*             the decoder cannot be built;
\*   e.perm    the order a shuffle produces;
\*   e.locked  whether try_lock in play finds the snapshot mutex held by
\*             the remote-control thread;
\*   e.tick_locked  the same for try_lock in handle_tick.

\* A play_file that lets go of the sink it stopped when the load fails.
Mutant_Playback_play_file_DropsSink(p, dur, io) ==
    IF io = "Play" THEN Ret([p EXCEPT !.sink = None], "Play")
    ELSE Ret([p EXCEPT !.duration = dur, !.sink = Some(NewSink)], "Ok")

\* Playback::play_file.
Playback_play_file(p, dur, io) ==
    LET stopped == IF IsSome(p.sink)
                   THEN [p EXCEPT !.sink = Some(SinkStop(Unwrap(p.sink)))]
                   ELSE p
    IN  IF io = "Play" THEN Ret(stopped, "Play")
        ELSE Ret([stopped EXCEPT !.duration = dur, !.sink = Some(NewSink)], "Ok")

\* Playback::play_path.
Playback_play_path(p, dur, io) ==
    IF io = "Io" THEN Ret(p, "Io") ELSE Playback_play_file(p, dur, io)

Playback_resume(p) ==
    IF p.sink = None THEN Ret(p, "NoAudio")
    ELSE Ret([p EXCEPT !.sink[1].paused = FALSE], "Ok")

Playback_pause(p) ==
    IF p.sink = None THEN Ret(p, "NoAudio")
    ELSE Ret([p EXCEPT !.sink[1].paused = TRUE], "Ok")

Playback_stop(p) ==
    IF p.sink = None THEN Ret(p, "NoAudio")
    ELSE Ret([p EXCEPT !.sink = None], "Ok")

Playback_set_volume(p, volume) ==
    IF p.sink = None THEN Ret(p, "NoAudio")
    ELSE Ret([p EXCEPT !.sink[1].volume = volume], "Ok")

\* Playback::seek: the position is clamped to one second before the end
\* of the track; io is "Seek" when Sink::try_seek fails.
Playback_seek(p, seek_pos, io) ==
    IF p.sink = None THEN Ret(p, "NoAudio")
    ELSE LET clamped == IF IsSome(p.duration)
                        THEN Min(seek_pos, SaturatingSub(Unwrap(p.duration), 1))
                        ELSE seek_pos
         IN  IF io = "Seek" THEN Ret(p, "Seek")
             ELSE Ret([p EXCEPT !.sink[1].pos = clamped], "Ok")

----------------------------------------------------------------------------
(* f32: volumes are counted in hundredths, 100 being 1.0 *)

\* The value NaN, which is no number: it is written as an integer that no
\* volume reaches, and every operation on f32 treats it apart.
NaN == -999

MAX_VOLUME == 200

\* f32 addition and subtraction: NaN when an operand is NaN.
FAdd(a, b) == IF a = NaN \/ b = NaN THEN NaN ELSE a + b
FSub(a, b) == IF a = NaN \/ b = NaN THEN NaN ELSE a - b

\* f32::clamp: NaN stays NaN.
FClamp(v, lo, hi) ==
    IF v = NaN THEN NaN ELSE IF v < lo THEN lo ELSE IF v > hi THEN hi ELSE v

----------------------------------------------------------------------------
(* Player: queries *)

playstate(p) ==
    IF p.sink = None THEN "Stopped"
    ELSE IF Unwrap(p.sink).empty THEN "Ended"
    ELSE IF Unwrap(p.sink).paused THEN "Paused"
    ELSE "Playing"

is_track_index_current(p, track_index) ==
    IsSome(p.cur_track_index) /\ Unwrap(p.cur_track_index) = track_index

\* usize::saturating_sub

current_is_last(p) ==
    /\ IsSome(p.cur_track_index)
    /\ Unwrap(p.cur_track_index) >= SaturatingSub(Len(p.queue), 1)

----------------------------------------------------------------------------
(* Player: derived aggregates *)

calculate_queue_dur(p) == [p EXCEPT !.queue_dur = SumDuration(p.queue)]

\* The slice queue[..cur_index] panics when cur_index > len.
\* An elapsed time that counts the current entry in.
Mutant_calculate_elapsed_Inclusive(p) ==
    IF IsSome(p.cur_track_index)
    THEN LET cur_index == Unwrap(p.cur_track_index)
         IN  IF cur_index > Len(p.queue) THEN Ret(p, "Panic")
             ELSE Ret([p EXCEPT !.elapsed = SumDuration(
                          SubSeq(p.queue, 1, Min(cur_index + 1, Len(p.queue))))],
                      "Ok")
    ELSE Ret([p EXCEPT !.elapsed = 0], "Ok")

calculate_elapsed(p) ==
    IF IsSome(p.cur_track_index)
    THEN LET cur_index == Unwrap(p.cur_track_index)
         IN  IF cur_index > Len(p.queue) THEN Ret(p, "Panic")
             ELSE Ret([p EXCEPT
                         !.elapsed = SumDuration(SubSeq(p.queue, 1, cur_index))],
                      "Ok")
    ELSE Ret([p EXCEPT !.elapsed = 0], "Ok")

----------------------------------------------------------------------------
(* Player: playback commands *)

\* The metadata play writes to the snapshot when try_lock succeeds: the
\* track id, and with it the title and the album, the length, and the
\* artist only when the track has one.
PlayMetadata(metadata, track) ==
    [metadata EXCEPT !.trackid = Some(track.id),
                     !.length = Some(duration(track)),
                     !.artist = IF IsSome(TrackArtist(track.id))
                                THEN TrackArtist(track.id) ELSE @]

\* The bookkeeping of play after the new session is loaded.
PlayLoaded(p, track_index, locked) ==
    LET track == p.queue[track_index + 1]
        vol   == Playback_set_volume(p, IF p.muted THEN 0 ELSE p.volume)
        last  == IF IsSome(p.cur_track_index)
                 THEN IF IsSome(p.last_track_index)
                         /\ Unwrap(p.last_track_index) = track_index
                      THEN None
                      ELSE p.cur_track_index
                 ELSE p.last_track_index
        meta  == IF locked THEN p.state.metadata
                 ELSE PlayMetadata(p.state.metadata, track)
    IN  IF IsErr(vol) THEN vol
        ELSE calculate_elapsed([vol.p EXCEPT !.last_track_index = last,
                                            !.cur_track_index = Some(track_index),
                                            !.cur_track = Some(track),
                                            !.state.metadata = meta])

play(p, track_index, e) ==
    IF track_index >= Len(p.queue) THEN Ret(p, "NoTrack")
    ELSE LET loaded == Playback_play_path(
                           p, Some(duration(p.queue[track_index + 1])), e.io)
         IN  IF IsErr(loaded) THEN loaded
             ELSE PlayLoaded(loaded.p, track_index, e.locked)

\* A replay that starts at the second entry.
Mutant_replay_Second(p, e) == play(p, 1, e)

replay(p, e) == play(p, 0, e)

\* A stop that ends the session and keeps the current entry.
Mutant_stop_KeepsCurrent(p) == Playback_stop(p)

stop(p) ==
    Playback_stop([p EXCEPT !.cur_track = None, !.cur_track_index = None])

pause(p) == Playback_pause(p)

resume(p, e) ==
    IF playstate(p) = "Ended"
    THEN IF IsSome(p.cur_track_index)
         THEN play(p, Unwrap(p.cur_track_index), e)
         ELSE Ret(p, "Ok")
    ELSE Playback_resume(p)

toggle(p, e) ==
    IF playstate(p) = "Playing" THEN pause(p) ELSE resume(p, e)

\* Player::pos: the position of the session, zero without one.
pos(p) == IF IsSome(p.sink) THEN Unwrap(p.sink).pos ELSE 0

seek(p, seek_pos, io) == Playback_seek(p, seek_pos, io)

\* Duration + Duration panics when the sum overflows.
seek_forward(p, dur, io) ==
    IF pos(p) + dur > MaxDuration THEN Ret(p, "Panic")
    ELSE seek(p, pos(p) + dur, io)

seek_backward(p, dur, io) == seek(p, SaturatingSub(pos(p), dur), io)

\* A set_volume that drops the volume it is given while the player is muted.
Mutant_set_volume_DroppedWhenMuted(p, volume, locked) ==
    IF p.muted THEN Playback_set_volume([p EXCEPT !.state.volume = 0], 0)
    ELSE LET stored == [p EXCEPT !.volume = FClamp(volume, 0, MAX_VOLUME)]
         IN  Playback_set_volume([stored EXCEPT !.state.volume = stored.volume],
                                 stored.volume)

\* set_volume writes the snapshot under state.lock(), not try_lock.
set_volume(p, volume, locked) ==
    LET stored == [p EXCEPT !.volume = FClamp(volume, 0, MAX_VOLUME)]
    IN  IF stored.muted
        THEN Lock(Playback_set_volume([stored EXCEPT !.state.volume = 0], 0),
                  locked)
        ELSE Lock(Playback_set_volume(
                      [stored EXCEPT !.state.volume = stored.volume], stored.volume),
                  locked)

volume_up(p, value, locked) == set_volume(p, FAdd(p.volume, value), locked)

volume_down(p, value, locked) == set_volume(p, FSub(p.volume, value), locked)

\* A set_muted that raises the flag and leaves the session as it plays.
Mutant_set_muted_FlagOnly(p, muted) ==
    IF p.sink = None THEN Ret([p EXCEPT !.muted = muted], "NoAudio")
    ELSE Ret([p EXCEPT !.muted = muted], "Ok")

set_muted(p, muted) ==
    LET q == [p EXCEPT !.muted = muted]
    IN  IF q.muted THEN Playback_set_volume(q, 0)
        ELSE Playback_set_volume(q, q.volume)

mute_toggle(p) == set_muted(p, ~p.muted)

\* set_loop writes the snapshot under state.lock(), not try_lock.
set_loop(p, loopstate, locked) ==
    Lock(Ret([p EXCEPT !.loopstate = loopstate,
                       !.state.loopstatus =
                           IF loopstate = "None" THEN "None" ELSE "Playlist"],
             "Ok"),
         locked)

\* A cycle that runs the other way round.
Mutant_cycle_next_Backwards(loopstate) ==
    CASE loopstate = "None"    -> "Shuffle"
      [] loopstate = "Queue"   -> "None"
      [] loopstate = "Shuffle" -> "Queue"

\* impl Cycle for LoopState
cycle_next(loopstate) ==
    CASE loopstate = "None"    -> "Queue"
      [] loopstate = "Queue"   -> "Shuffle"
      [] loopstate = "Shuffle" -> "None"

cycle_prev(loopstate) ==
    CASE loopstate = "Shuffle" -> "Queue"
      [] loopstate = "Queue"   -> "None"
      [] loopstate = "None"    -> "Shuffle"

cycle_loopstate(p, locked) == set_loop(p, cycle_next(p.loopstate), locked)

----------------------------------------------------------------------------
(* Player: queue *)

queue_add(p, track) ==
    calculate_queue_dur([p EXCEPT !.queue = Append(p.queue, track)])

queue_add_tracks(p, tracks) ==
    calculate_queue_dur([p EXCEPT !.queue = p.queue \o tracks])

\* The entries queue_add_playlist allocates for a playlist; live holds the
\* entries allocated before.
PlaylistEntries(playlist_index, live) ==
    LET tracks == playlists[playlist_index + 1]
    IN  [i \in 1..Len(tracks) |-> RcNew(tracks[i], playlist_index, live)]

queue_add_playlist(p, playlist_index, live) ==
    IF playlist_index >= Len(playlists) THEN Ret(p, "NoPlaylist")
    ELSE Ret(queue_add_tracks(p, PlaylistEntries(playlist_index, live)), "Ok")

queue_add_from_playlist(p, playlist_index, track_index, live) ==
    IF playlist_index >= Len(playlists) THEN Ret(p, "NoPlaylist")
    ELSE IF track_index >= Len(playlists[playlist_index + 1]) THEN Ret(p, "NoTrack")
    ELSE Ret(queue_add(p, RcNew(playlists[playlist_index + 1][track_index + 1],
                                playlist_index, live)),
             "Ok")

\* A queue_set that stops first and gives up when nothing was loaded.
Mutant_queue_set_StopsFirst(p, tracks) ==
    LET stopped == stop(p)
    IN  IF IsErr(stopped) THEN stopped
        ELSE Ret(calculate_queue_dur([stopped.p EXCEPT !.queue = tracks]), "Ok")

queue_set(p, tracks) ==
    stop(calculate_queue_dur([p EXCEPT !.queue = tracks]))

queue_set_playlist(p, playlist_index, live) ==
    queue_add_playlist([p EXCEPT !.queue = << >>], playlist_index, live)

queue_clear(p) ==
    stop(calculate_queue_dur([p EXCEPT !.queue = << >>]))

\* A shuffle that ends the session, as queue_set does.
Mutant_queue_shuffle_Stops(p, perm) ==
    stop([p EXCEPT !.queue = shuffle(p.queue, perm)]).p

\* queue_shuffle returns nothing; elapsed is recomputed for an index that
\* position() found, which is inside the queue.
queue_shuffle(p, perm) ==
    LET q == [p EXCEPT !.queue = shuffle(p.queue, perm)]
    IN  IF IsSome(q.cur_track)
        THEN LET new_index ==
                     Position(q.queue, Unwrap(q.cur_track).id)
             IN  IF IsSome(new_index)
                 THEN calculate_elapsed([q EXCEPT !.cur_track_index = new_index]).p
                 ELSE q
        ELSE q

play_playlist(p, playlist_index, track_index, e, live) ==
    LET set == queue_set_playlist(p, playlist_index, live)
    IN  IF IsErr(set) THEN set ELSE play(set.p, track_index, e)

\* A play_next that starts the queue over without a loop mode.
Mutant_play_next_AlwaysLoops(p, e) ==
    IF p.cur_track_index = None THEN Ret(p, "NotPlaying")
    ELSE IF current_is_last(p) THEN replay(p, e)
    ELSE play(p, Unwrap(p.cur_track_index) + 1, e)

\* A play_next that shuffles after it started the queue over.
Mutant_play_next_ShufflesLate(p, e) ==
    IF p.cur_track_index = None THEN Ret(p, "NotPlaying")
    ELSE IF current_is_last(p)
         THEN CASE p.loopstate = "None"    -> Ret(p, "NoMore")
                [] p.loopstate = "Queue"   -> replay(p, e)
                [] p.loopstate = "Shuffle" ->
                       LET played == replay(p, e)
                       IN  Ret(queue_shuffle(played.p, e.perm), played.r)
         ELSE play(p, Unwrap(p.cur_track_index) + 1, e)

\* A play_next that starts the queue over one entry early.
Mutant_play_next_WrapsEarly(p, e) ==
    IF p.cur_track_index = None THEN Ret(p, "NotPlaying")
    ELSE IF Unwrap(p.cur_track_index) + 2 >= Len(p.queue)
         THEN CASE p.loopstate = "None"    -> Ret(p, "NoMore")
                [] p.loopstate = "Queue"   -> replay(p, e)
                [] p.loopstate = "Shuffle" -> replay(queue_shuffle(p, e.perm), e)
         ELSE play(p, Unwrap(p.cur_track_index) + 1, e)

play_next(p, e) ==
    IF p.cur_track_index = None THEN Ret(p, "NotPlaying")
    ELSE IF current_is_last(p)
         THEN CASE p.loopstate = "None"    -> Ret(p, "NoMore")
                [] p.loopstate = "Queue"   -> replay(p, e)
                [] p.loopstate = "Shuffle" -> replay(queue_shuffle(p, e.perm), e)
         ELSE play(p, Unwrap(p.cur_track_index) + 1, e)

\* A play_prev that wraps to the last entry when the queue loops.
Mutant_play_prev_Wraps(p, e) ==
    IF p.cur_track_index = None THEN Ret(p, "NotPlaying")
    ELSE IF Unwrap(p.cur_track_index) = 0
         THEN IF p.loopstate = "None" THEN Ret(p, "NoMore")
              ELSE play(p, SaturatingSub(Len(p.queue), 1), e)
    ELSE play(p, Unwrap(p.cur_track_index) - 1, e)

play_prev(p, e) ==
    IF p.cur_track_index = None THEN Ret(p, "NotPlaying")
    ELSE IF Unwrap(p.cur_track_index) = 0 THEN Ret(p, "NoMore")
    ELSE play(p, Unwrap(p.cur_track_index) - 1, e)

\* The aggregates queue_remove recomputes before it returns Ok.
RemoveFinish(p) == calculate_elapsed(calculate_queue_dur(p))

\* queue_remove, the entry at index being the current one: the entry is
\* removed, playback stops when the queue is left empty and otherwise the
\* entry now at index is played; an error of either returns early.
RemoveCurrent(p, index, e) ==
    LET removed == [p EXCEPT !.queue = VecRemove(p.queue, index)]
        played  == IF removed.queue = << >> THEN stop(removed)
                   ELSE play(removed, index, e)
    IN  IF IsErr(played) THEN played ELSE RemoveFinish(played.p)

\* A removal that forgets the current index.
Mutant_RemoveOther_KeepsIndex(p, index) ==
    RemoveFinish([p EXCEPT !.queue = VecRemove(p.queue, index)])

\* queue_remove, the entry at index not being the current one: the entry
\* is removed, and a current index after it moves down by one.
RemoveOther(p, index) ==
    LET removed == [p EXCEPT !.queue = VecRemove(p.queue, index)]
    IN  IF IsSome(p.cur_track_index) /\ Unwrap(p.cur_track_index) > index
        THEN RemoveFinish([removed EXCEPT !.cur_track_index =
                 Some(SaturatingSub(Unwrap(p.cur_track_index), 1))])
        ELSE RemoveFinish(removed)

\* queue_remove on a queue that holds something.  Vec::remove panics when
\* index >= len.
RemoveFromQueue(p, index, e) ==
    IF index >= Len(p.queue) THEN Ret(p, "Panic")
    ELSE IF is_track_index_current(p, index) THEN RemoveCurrent(p, index, e)
    ELSE RemoveOther(p, index)

\* A removal without the check for an empty queue.
Mutant_queue_remove_NoEmptyCheck(p, index, e) == RemoveFromQueue(p, index, e)

queue_remove(p, index, e) ==
    IF p.queue = << >> THEN Ret(p, "EmptyQueue")
    ELSE RemoveFromQueue(p, index, e)

queue_move_to(p, track_index, to_index) ==
    LET queue_len == Len(p.queue)
        to        == Min(to_index, SaturatingSub(queue_len, 1))
        moved     == [p EXCEPT !.queue = move_to(p.queue, track_index, to)]
    IN  IF track_index >= queue_len THEN Ret(p, "NoTrack")
        ELSE calculate_elapsed(
                 IF is_track_index_current(moved, to)
                 THEN [moved EXCEPT !.cur_track_index = Some(track_index)]
                 ELSE IF is_track_index_current(moved, track_index)
                      THEN [moved EXCEPT !.cur_track_index = Some(to)]
                      ELSE moved)

----------------------------------------------------------------------------
(* Player: the tick *)

\* The reconciliation of handle_tick: with the snapshot mutex acquired,
\* the snapshot takes the engine's status, Ended shown as Stopped, and
\* its position.
TickSnapshot(p) ==
    [p EXCEPT !.state.playstatus =
                  IF playstate(p) = "Ended" THEN "Stopped" ELSE playstate(p),
              !.state.pos = pos(p)]

\* The test of handle_tick for the auto-advance: a track is loaded, its
\* session has ended and last_track_index is not the current index.
TickAdvances(p) ==
    /\ IsSome(p.cur_track)
    /\ playstate(p) = "Ended"
    /\ p.last_track_index # p.cur_track_index

\* A tick that does not note the index it advanced from.
Mutant_handle_tick_ForgetsAdvance(p, e) ==
    LET q == IF e.tick_locked THEN p ELSE TickSnapshot(p)
    IN  IF TickAdvances(q)
        THEN LET next == play_next([q EXCEPT !.sink[1].advanced = q.cur_track_index],
                                   e)
             IN  Ret(next.p, IF next.r = "Panic" THEN "Panic" ELSE "Ok")
        ELSE Ret(q, "Ok")

\* A tick that gives up when it finds the snapshot mutex held.
Mutant_handle_tick_ReturnsWhenLocked(p, e) ==
    IF e.tick_locked THEN Ret(p, "Ok")
    ELSE LET q == TickSnapshot(p)
         IN  IF TickAdvances(q)
             THEN LET next == play_next(
                          [q EXCEPT !.last_track_index = q.cur_track_index,
                                    !.sink[1].advanced = q.cur_track_index], e)
                  IN  Ret(next.p, IF next.r = "Panic" THEN "Panic" ELSE "Ok")
             ELSE Ret(q, "Ok")

\* handle_tick: the reconciliation, then the auto-advance, where the
\* error of play_next is dropped.
handle_tick(p, e) ==
    LET q == IF e.tick_locked THEN p ELSE TickSnapshot(p)
    IN  IF TickAdvances(q)
        THEN LET next == play_next([q EXCEPT !.last_track_index = q.cur_track_index,
                                            !.sink[1].advanced = q.cur_track_index],
                                   e)
             IN  Ret(next.p, IF next.r = "Panic" THEN "Panic" ELSE "Ok")
        ELSE Ret(q, "Ok")

----------------------------------------------------------------------------
(* App: what the user is shown *)

\* App::catch_error, for the result r of a key command or a remote action:
\* the notification it puts in ctx.state.notif, None when it shows nothing.
\* Every error it does not list by name is shown with its own message.
catch_error(r) ==
    CASE r = "Ok" -> None
      [] r \in {"NoAudio", "NoTrack", "NoPlaylist", "EmptyQueue", "NotPlaying"} -> None
      [] OTHER -> Some([error |-> r])

----------------------------------------------------------------------------
(* State machine *)

\* Player::new
new ==
             [ sink |-> None,
                  duration |-> None,
                  queue |-> << >>,
                  queue_dur |-> 0,
                  elapsed |-> 0,
                  last_track_index |-> None,
                  cur_track_index |-> None,
                  cur_track |-> None,
                  volume |-> 100,
                  muted |-> FALSE,
                  loopstate |-> "None",
                  state |-> [ metadata |-> [trackid |-> None, length |-> None,
                                            artist |-> None],
                              playstatus |-> "Stopped",
                              loopstatus |-> "None",
                              pos |-> 0,
                              volume |-> 100 ] ]

\* The steps of the model: the calls of the engine that the main loop, the
\* key handlers, the commands and the remote actions make, and the moves
\* of the audio backend.
Calls ==
    { "drain", "advance", "handle_tick",
      "play", "play_playlist", "play_next", "play_prev", "resume", "pause",
      "toggle", "stop", "seek", "seek_forward", "seek_backward",
      "set_volume", "volume_up", "volume_down", "set_muted", "mute_toggle",
      "set_loop", "cycle_loopstate",
      "queue_add_playlist", "queue_add_from_playlist", "queue_set",
      "queue_clear", "queue_shuffle", "queue_remove", "queue_move_to" }

\* The player as Player::new built it, n steps before the observed call,
\* which is one of names.
Start(n, names) ==
    /\ player = new
    /\ steps = n
    /\ pre = new
    /\ op = [name |-> "new", args |-> << >>, waited |-> FALSE, held |-> << >>]
    /\ result = "Ok"
    /\ watched = names
    /\ channel = << >>

Init == Start(MaxSteps, Calls)

\* Rc identities are opaque, so the entries of a state are renamed to a
\* canonical form: the rc of an entry is the number of different entries
\* wrapping the same track with the same playlist index that come before
\* it in order, the entries of a state listed queue first.
Entries(p) == p.queue \o p.cur_track

Rank(order, t) ==
    LET first == CHOOSE i \in 1..Len(order) :
                     order[i] = t /\ \A j \in 1..(i - 1) : order[j] # t
    IN  Cardinality({order[j] : j \in {k \in 1..(first - 1) :
                         order[k].id = t.id /\ order[k].pl = t.pl}})

Renamed(p, order) ==
    [p EXCEPT !.queue = [i \in DOMAIN p.queue |-> [p.queue[i] EXCEPT
                             !.rc = Rank(order, p.queue[i])]],
              !.cur_track = [i \in DOMAIN p.cur_track |-> [p.cur_track[i] EXCEPT
                             !.rc = Rank(order, p.cur_track[i])]]]

\* One step: a call of the engine or a move of the audio backend, which
\* starts from player and ends in out.  The engine runs unobserved for
\* the steps it was given at the start, and any one step that is a
\* watched call may be the observed one: pre, op and result then record the player it started from, the call and
\* what it returned.  Nothing follows the observed step, since the player
\* it leaves is also reached unobserved; nothing follows a panic.
Step(name, args, env, out) ==
    LET ret   == out
        order == Entries(ret.p) \o Entries(player)
    IN  \/ /\ steps > 0
           /\ ret.r # "Panic"
           /\ player' = Renamed(ret.p, order)
           /\ steps' = steps - 1
           /\ UNCHANGED <<pre, op, result, watched>>
        \/ /\ name \in watched
           /\ player' = Renamed(ret.p, order)
           /\ pre' = Renamed(player, order)
           /\ op' = [name |-> name, args |-> args, waited |-> ret.w,
                     held |-> IF name = "handle_tick"
                              THEN <<env.tick_locked, env.locked>> ELSE << >>]
           /\ result' = ret.r
           /\ UNCHANGED <<steps, watched>>

\* A call the engine thread makes for a message the main loop received: the
\* messages still in the channel stay there.
Call(name, args, env, out) == Step(name, args, env, out) /\ UNCHANGED channel

\* The queue indices tried: those of the queue, and the first one past
\* its end.
Indices == 0..Len(player.queue)

\* The playlist indices tried; the last one names no playlist.
PlaylistIndices == 0..Len(playlists)

\* The track indices tried with playlist k: those of the playlist, and the
\* first one past its end.
TrackIndices(k) == IF k < Len(playlists) THEN 0..Len(playlists[k + 1]) ELSE {0}

\* The order of a queue that is not shuffled.
Unshuffled == [i \in 1..Len(player.queue) |-> i]

\* The orders the shuffle of play_next can produce: play_next shuffles
\* only at the last entry with the loop mode Shuffle.
NextOrders ==
    IF current_is_last(player) /\ player.loopstate = "Shuffle"
    THEN Perms(Len(player.queue))
    ELSE {Unshuffled}

\* The parts of the environment a call consults: a load the file and the
\* try_lock of play, play_next these and its shuffle, queue_shuffle the
\* shuffle, and a tick its own try_lock and, when it calls play_next, what
\* play_next consults.
LoadEnvs ==
    [ io : {"Ok", "Io", "Play"}, perm : {Unshuffled},
      locked : BOOLEAN, tick_locked : {FALSE} ]
NextEnvs ==
    [ io : {"Ok", "Io", "Play"}, perm : NextOrders,
      locked : BOOLEAN, tick_locked : {FALSE} ]
ShuffleEnvs ==
    [ io : {"Ok"}, perm : Perms(Len(player.queue)),
      locked : {FALSE}, tick_locked : {FALSE} ]
TickEnvs ==
    IF TickAdvances(player)
    THEN [ io : {"Ok", "Io", "Play"}, perm : NextOrders,
           locked : BOOLEAN, tick_locked : BOOLEAN ]
    ELSE [ io : {"Ok"}, perm : {Unshuffled},
           locked : {FALSE}, tick_locked : BOOLEAN ]
NoEnv == << >>

\* The queues handed to queue_set: an empty one, and stand-alone entries
\* for the tracks of the library.
QueueSetInputs ==
    { << >>,
      [i \in 1..Len(playlists[1]) |-> RcNew(playlists[1][i], Signle, Live(player))] }

\* enum LoopState
LoopStates == {"None", "Queue", "Shuffle"}

\* The seconds handed to the seeks: none, one, more than any track lasts,
\* and the longest Duration; and what Sink::try_seek answers.
SeekArgs == {0, 1, 5, MaxDuration}
SeekEnvs == {"Ok", "Seek"}

\* The volumes handed to set_volume: NaN, one below the range, one inside
\* and one above; and the steps handed to volume_up and volume_down.
VolumeArgs == {NaN, -10, 90, 250}
VolumeJumps == {30, 250}

\* No call has been observed yet.
Running == op.name = "new"

\* The source of a session that was playing runs out.
SinkDrain ==
    /\ Running
    /\ playstate(player) = "Playing"
    /\ Call("drain", << >>, NoEnv, Ret([player EXCEPT !.sink[1].empty = TRUE], "Ok"))

\* The session plays on for some seconds of its track.
SinkAdvance ==
    /\ Running
    /\ playstate(player) = "Playing"
    /\ IsSome(player.duration)
    /\ \E to \in (pos(player) + 1)..Unwrap(player.duration) :
           Call("advance", << >>, NoEnv, Ret([player EXCEPT !.sink[1].pos = to], "Ok"))

Tick ==
    /\ Running
    /\ \E e \in TickEnvs : Call("handle_tick", << >>, e, handle_tick(player, e))

Play ==
    /\ Running
    /\ \E i \in Indices, e \in LoadEnvs : Call("play", <<i>>, e, play(player, i, e))

PlayPlaylist ==
    /\ Running
    /\ \E k \in PlaylistIndices, e \in LoadEnvs : \E i \in TrackIndices(k) :
           Call("play_playlist", <<k, i>>, e,
                play_playlist(player, k, i, e, Live(player)))

PlayNext ==
    /\ Running
    /\ \E e \in NextEnvs : Call("play_next", << >>, e, play_next(player, e))

PlayPrev ==
    /\ Running
    /\ \E e \in LoadEnvs : Call("play_prev", << >>, e, play_prev(player, e))

Resume ==
    /\ Running
    /\ \E e \in LoadEnvs : Call("resume", << >>, e, resume(player, e))

Pause ==
    /\ Running
    /\ Call("pause", << >>, NoEnv, pause(player))

Toggle ==
    /\ Running
    /\ \E e \in LoadEnvs : Call("toggle", << >>, e, toggle(player, e))

Stop ==
    /\ Running
    /\ Call("stop", << >>, NoEnv, stop(player))

Seek ==
    /\ Running
    /\ \E to \in SeekArgs, io \in SeekEnvs :
           Call("seek", <<to>>, io, seek(player, to, io))

SeekForward ==
    /\ Running
    /\ \E dur \in SeekArgs, io \in SeekEnvs :
           Call("seek_forward", <<dur>>, io, seek_forward(player, dur, io))

SeekBackward ==
    /\ Running
    /\ \E dur \in SeekArgs, io \in SeekEnvs :
           Call("seek_backward", <<dur>>, io, seek_backward(player, dur, io))

SetVolume ==
    /\ Running
    /\ \E volume \in VolumeArgs, locked \in BOOLEAN :
           Call("set_volume", <<volume>>, locked, set_volume(player, volume, locked))

VolumeUp ==
    /\ Running
    /\ \E value \in VolumeJumps, locked \in BOOLEAN :
           Call("volume_up", <<value>>, locked, volume_up(player, value, locked))

VolumeDown ==
    /\ Running
    /\ \E value \in VolumeJumps, locked \in BOOLEAN :
           Call("volume_down", <<value>>, locked, volume_down(player, value, locked))

SetMuted ==
    /\ Running
    /\ \E muted \in BOOLEAN :
           Call("set_muted", <<muted>>, NoEnv, set_muted(player, muted))

MuteToggle ==
    /\ Running
    /\ Call("mute_toggle", << >>, NoEnv, mute_toggle(player))

SetLoop ==
    /\ Running
    /\ \E loopstate \in LoopStates, locked \in BOOLEAN :
           Call("set_loop", <<loopstate>>, locked, set_loop(player, loopstate, locked))

CycleLoopstate ==
    /\ Running
    /\ \E locked \in BOOLEAN :
           Call("cycle_loopstate", << >>, locked, cycle_loopstate(player, locked))

QueueAddPlaylist ==
    /\ Running
    /\ \E k \in PlaylistIndices :
        /\ k < Len(playlists) => Len(player.queue) + Len(playlists[k + 1]) <= MaxQueue
        /\ Call("queue_add_playlist", <<k>>, NoEnv,
                queue_add_playlist(player, k, Live(player)))

QueueAddFromPlaylist ==
    /\ Running
    /\ Len(player.queue) < MaxQueue
    /\ \E k \in PlaylistIndices : \E i \in TrackIndices(k) :
           Call("queue_add_from_playlist", <<k, i>>, NoEnv,
                queue_add_from_playlist(player, k, i, Live(player)))

QueueSet ==
    /\ Running
    /\ \E tracks \in QueueSetInputs :
           Call("queue_set", <<tracks>>, NoEnv, queue_set(player, tracks))

QueueClear ==
    /\ Running
    /\ Call("queue_clear", << >>, NoEnv, queue_clear(player))

QueueShuffle ==
    /\ Running
    /\ \E e \in ShuffleEnvs :
           Call("queue_shuffle", << >>, e, Ret(queue_shuffle(player, e.perm), "Ok"))

QueueRemove ==
    /\ Running
    /\ \E i \in Indices, e \in LoadEnvs :
           Call("queue_remove", <<i>>, e, queue_remove(player, i, e))

QueueMoveTo ==
    /\ Running
    /\ \E from \in Indices, to \in Indices :
           Call("queue_move_to", <<from, to>>, NoEnv, queue_move_to(player, from, to))

Next ==
    \/ SinkDrain
    \/ SinkAdvance
    \/ Tick
    \/ Play
    \/ PlayPlaylist
    \/ PlayNext
    \/ PlayPrev
    \/ Resume
    \/ Pause
    \/ Toggle
    \/ Stop
    \/ Seek
    \/ SeekForward
    \/ SeekBackward
    \/ SetVolume
    \/ VolumeUp
    \/ VolumeDown
    \/ SetMuted
    \/ MuteToggle
    \/ SetLoop
    \/ CycleLoopstate
    \/ QueueAddPlaylist
    \/ QueueAddFromPlaylist
    \/ QueueSet
    \/ QueueClear
    \/ QueueShuffle
    \/ QueueRemove
    \/ QueueMoveTo

Spec == Init /\ [][Next]_vars

\* The behaviours of playing, ending and ticking: the commands that start
\* and end playback and reorder the queue, the audio backend and the tick,
\* followed for more steps than Spec follows every command, the observed
\* call being a tick.
InitTick == Start(MaxTickSteps, {"handle_tick"})

NextTick ==
    \/ SinkDrain
    \/ Tick
    \/ Play
    \/ PlayPlaylist
    \/ Resume
    \/ Stop
    \/ SetLoop
    \/ QueueAddFromPlaylist
    \/ QueueMoveTo

SpecTick == InitTick /\ [][NextTick]_vars

----------------------------------------------------------------------------
(* The remote-control server and the main loop *)

\* enum UpdateKind, the messages of the channel, and enum ServerAction:
\* action names the variant and arg is what Seek and Volume carry, an
\* offset in seconds or a volume.
UpdateKind_Tick == [kind |-> "Tick", action |-> "Tick", arg |-> 0]
UpdateKind_Server(action, arg) == [kind |-> "Server", action |-> action, arg |-> arg]

\* What a method of Server ends with: the snapshot, which it reaches
\* through its Arc, the channel, which it reaches through its Sender, and
\* the value it returns.  A Server holds nothing else of the player.
Served(state, ch, value) == [state |-> state, channel |-> ch, value |-> value]

\* Server::send
Server_send(state, ch, action, arg) ==
    Served(state, Append(ch, UpdateKind_Server(action, arg)), "Ok")

\* impl PlayerInterface for Server: the methods that send
Server_play(state, ch) == Server_send(state, ch, "Play", 0)
Server_pause(state, ch) == Server_send(state, ch, "Pause", 0)
Server_stop(state, ch) == Server_send(state, ch, "Stop", 0)
Server_play_pause(state, ch) == Server_send(state, ch, "PlayPause", 0)
Server_seek(state, ch, offset) == Server_send(state, ch, "Seek", offset)
Server_next(state, ch) == Server_send(state, ch, "Next", 0)
Server_previous(state, ch) == Server_send(state, ch, "Prev", 0)
Server_set_shuffle(state, ch, shuffle_on) ==
    IF shuffle_on THEN Server_send(state, ch, "Shuffle", 0)
    ELSE Served(state, ch, "Ok")

\* `volume as f32`: the hundredths of the model are f32 values as they are,
\* and NaN stays NaN.
Server_set_volume(state, ch, volume) == Server_send(state, ch, "Volume", volume)

\* The methods that read the snapshot under state.lock()
Server_playback_status(state, ch) == Served(state, ch, state.playstatus)
Server_metadata(state, ch) == Served(state, ch, state.metadata)
Server_volume(state, ch) == Served(state, ch, state.volume)
Server_position(state, ch) == Served(state, ch, state.pos)

\* The methods left as stubs (TODO in the source)
Server_set_loop_status(state, ch, loop_status) == Served(state, ch, "Ok")
Server_loop_status(state, ch) == Served(state, ch, "None")

\* i64::unsigned_abs
unsigned_abs(n) == IF n < 0 THEN 0 - n ELSE n

\* A translation that sends Next to play_prev.
Mutant_try_handle_server_action_NextIsPrev(p, action, e) ==
    CASE action.action = "Play"      -> resume(p, e)
      [] action.action = "Pause"     -> pause(p)
      [] action.action = "Stop"      -> stop(p)
      [] action.action = "PlayPause" -> toggle(p, e)
      [] action.action = "Seek"      ->
             IF action.arg > 0
             THEN seek_forward(p, unsigned_abs(action.arg), e.io)
             ELSE IF action.arg < 0
                  THEN seek_backward(p, unsigned_abs(action.arg), e.io)
                  ELSE Ret(p, "Ok")
      [] action.action = "Volume"    -> set_volume(p, action.arg, e.locked)
      [] action.action = "Next"      -> play_prev(p, e)
      [] action.action = "Prev"      -> play_prev(p, e)
      [] action.action = "Shuffle"   -> Ret(queue_shuffle(p, e.perm), "Ok")

\* App::try_handle_server_action
try_handle_server_action(p, action, e) ==
    CASE action.action = "Play"      -> resume(p, e)
      [] action.action = "Pause"     -> pause(p)
      [] action.action = "Stop"      -> stop(p)
      [] action.action = "PlayPause" -> toggle(p, e)
      [] action.action = "Seek"      ->
             IF action.arg > 0
             THEN seek_forward(p, unsigned_abs(action.arg), e.io)
             ELSE IF action.arg < 0
                  THEN seek_backward(p, unsigned_abs(action.arg), e.io)
                  ELSE Ret(p, "Ok")
      [] action.action = "Volume"    -> set_volume(p, action.arg, e.locked)
      [] action.action = "Next"      -> play_next(p, e)
      [] action.action = "Prev"      -> play_prev(p, e)
      [] action.action = "Shuffle"   -> Ret(queue_shuffle(p, e.perm), "Ok")

\* A receive that takes the newest message of the channel.
Mutant_recv_Newest(ch) ==
    [msg |-> ch[Len(ch)], rest |-> SubSeq(ch, 1, Len(ch) - 1)]

\* mpsc::Receiver::recv on a channel that holds a message: the oldest one.
recv(ch) == [msg |-> Head(ch), rest |-> Tail(ch)]

\* The body of the main loop for a message: a tick, or a remote action.
main(p, msg, e) ==
    IF msg.kind = "Tick" THEN handle_tick(p, e)
    ELSE try_handle_server_action(p, msg, e)

\* The offsets and the volumes the remote side sends.
RemoteOffsets == {-1, 0, 1}
RemoteVolumes == {50}

\* The parts of the environment the handling of a message consults.
EnvsFor(msg) ==
    CASE msg.kind = "Tick" -> TickEnvs
      [] msg.action \in {"Play", "PlayPause", "Prev"} -> LoadEnvs
      [] msg.action = "Next" -> NextEnvs
      [] msg.action = "Shuffle" -> ShuffleEnvs
      [] msg.action = "Seek" ->
             [ io : SeekEnvs, perm : {Unshuffled}, locked : {FALSE},
               tick_locked : {FALSE} ]
      [] msg.action = "Volume" ->
             [ io : {"Ok"}, perm : {Unshuffled}, locked : BOOLEAN,
               tick_locked : {FALSE} ]
      [] OTHER ->
             [ io : {"Ok"}, perm : {Unshuffled}, locked : {FALSE},
               tick_locked : {FALSE} ]

\* A method of Server that sends, run on the thread of the remote-control
\* server: one step, which leaves the snapshot and the channel as the
\* method left them; the channel as it was is recorded with the call.
Remote(name, args, served) ==
    /\ Running
    /\ Step(name, <<channel>> \o args, NoEnv,
            Ret([player EXCEPT !.state = served.state], served.value))
    /\ channel' = served.channel

\* A method of Server that returns a value or does nothing: it is followed
\* only as the observed call, and the value is recorded with it.
Query(name, served) ==
    /\ Running
    /\ name \in watched
    /\ player' = [player EXCEPT !.state = served.state]
    /\ pre' = player
    /\ op' = [name |-> name, args |-> <<channel, served.value>>,
              waited |-> FALSE, held |-> << >>]
    /\ result' = "Ok"
    /\ channel' = served.channel
    /\ UNCHANGED <<steps, watched>>

RemotePlay == Remote("Server.play", << >>, Server_play(player.state, channel))
RemotePause == Remote("Server.pause", << >>, Server_pause(player.state, channel))
RemoteStop == Remote("Server.stop", << >>, Server_stop(player.state, channel))
RemotePlayPause ==
    Remote("Server.play_pause", << >>, Server_play_pause(player.state, channel))
RemoteSeek ==
    \E offset \in RemoteOffsets :
        Remote("Server.seek", <<offset>>, Server_seek(player.state, channel, offset))
RemoteNext == Remote("Server.next", << >>, Server_next(player.state, channel))
RemotePrevious ==
    Remote("Server.previous", << >>, Server_previous(player.state, channel))
RemoteSetShuffle ==
    \E shuffle_on \in BOOLEAN :
        Remote("Server.set_shuffle", <<shuffle_on>>,
               Server_set_shuffle(player.state, channel, shuffle_on))
RemoteSetVolume ==
    \E volume \in RemoteVolumes :
        Remote("Server.set_volume", <<volume>>,
               Server_set_volume(player.state, channel, volume))

RemotePlaybackStatus ==
    Query("Server.playback_status", Server_playback_status(player.state, channel))
RemoteMetadata == Query("Server.metadata", Server_metadata(player.state, channel))
RemoteVolume == Query("Server.volume", Server_volume(player.state, channel))
RemotePosition == Query("Server.position", Server_position(player.state, channel))
RemoteSetLoopStatus ==
    \E loop_status \in {"Playlist"} :
        Query("Server.set_loop_status",
              Server_set_loop_status(player.state, channel, loop_status))
RemoteLoopStatus ==
    Query("Server.loop_status", Server_loop_status(player.state, channel))

\* The thread of handle_tick in main.rs sends a Tick.
TickSend ==
    /\ Running
    /\ Step("tick_send", <<channel>>, NoEnv, Ret(player, "Ok"))
    /\ channel' = Append(channel, UpdateKind_Tick)

\* One turn of the main loop: it receives a message and handles it.
MainLoop ==
    /\ Running
    /\ channel # << >>
    /\ LET r == recv(channel)
       IN  /\ \E e \in EnvsFor(r.msg) :
                  Step("recv", <<channel, r.msg>>, e, main(player, r.msg, e))
           /\ channel' = r.rest

\* The methods of Server the model follows.  The others return constants.
ServerMethods ==
    { "Server.play", "Server.pause", "Server.stop", "Server.play_pause",
      "Server.seek", "Server.next", "Server.previous", "Server.set_shuffle",
      "Server.set_volume", "Server.playback_status", "Server.metadata",
      "Server.volume", "Server.position", "Server.set_loop_status",
      "Server.loop_status" }

\* The steps of the behaviours with the remote-control server.
MaxRemoteSteps == 3

\* The behaviours with the remote-control server: its methods, the thread
\* that sends ticks, the main loop, the audio backend, and the commands of
\* the user that load a playlist and set the volume, the mute flag and the
\* loop mode, each taken as received by the main loop ahead of the messages
\* in the channel.  The observed call is a method of the server or a turn
\* of the main loop.
InitRemote == Start(MaxRemoteSteps, ServerMethods \cup {"recv"})

NextRemote ==
    \/ RemotePlay
    \/ RemotePause
    \/ RemoteStop
    \/ RemotePlayPause
    \/ RemoteSeek
    \/ RemoteNext
    \/ RemotePrevious
    \/ RemoteSetShuffle
    \/ RemoteSetVolume
    \/ RemotePlaybackStatus
    \/ RemoteMetadata
    \/ RemoteVolume
    \/ RemotePosition
    \/ RemoteSetLoopStatus
    \/ RemoteLoopStatus
    \/ TickSend
    \/ MainLoop
    \/ PlayPlaylist
    \/ SinkDrain
    \/ SetVolume
    \/ SetMuted
    \/ SetLoop

SpecRemote == InitRemote /\ [][NextRemote]_vars

----------------------------------------------------------------------------
(* Properties of the queue operations *)

\* The observed call and its arguments.
Observed(name) == op.name = name
Arg(n) == op.args[n]

\* The entry the current index of p points at, the index being inside the
\* queue.
InQueue(p) ==
    /\ IsSome(p.cur_track_index)
    /\ Unwrap(p.cur_track_index) < Len(p.queue)
Current(p) == p.queue[Unwrap(p.cur_track_index) + 1]

\* The durations of the entries of q before index n.
ElapsedBefore(q, n) == SumDuration(SubSeq(q, 1, n))

\* q without its entry at index n.
Without(q, n) ==
    [j \in 1..(Len(q) - 1) |-> IF j <= n THEN q[j] ELSE q[j + 1]]

\* How many times entry t occurs in q.
Count(q, t) == Cardinality({j \in DOMAIN q : q[j] = t})

\* q and r hold the same entries the same number of times.
SameEntries(q, r) ==
    /\ Len(q) = Len(r)
    /\ \A t \in Range(q) \cup Range(r) : Count(q, t) = Count(r, t)

\* C1: after any sequence of engine operations, successful or failed, a
\* current index that is Some(i) lies inside the queue and the current
\* track is the entry at that index, and with an empty queue both the
\* current index and the current track are None.
C1_CurrentIndexInvariant ==
    /\ IsSome(player.cur_track_index) =>
           /\ InQueue(player)
           /\ player.cur_track = Some(Current(player))
    /\ player.queue = << >> =>
           /\ player.cur_track_index = None
           /\ player.cur_track = None

\* C2: queue_remove(i) of the current index i, the queue holding something
\* afterwards and the audio backend not failing, leaves the current index at i with the entry that was at
\* i + 1 loaded as the current track, and elapsed the sum of the durations
\* before index i.
C2_RemoveCurrentLoadsFollowing ==
    ( /\ Observed("queue_remove")
      /\ pre.cur_track_index = Some(Arg(1))
      /\ Arg(1) < Len(pre.queue)
      /\ player.queue # << >>
      /\ result \notin {"Io", "Play"} )
    => /\ player.cur_track_index = Some(Arg(1))
       /\ Arg(1) + 1 < Len(pre.queue)
       /\ player.cur_track = Some(pre.queue[Arg(1) + 2])
       /\ IsSome(player.sink)
       /\ player.duration = Some(duration(pre.queue[Arg(1) + 2]))
       /\ player.elapsed = ElapsedBefore(player.queue, Arg(1))

\* C3: queue_remove(index) of an entry of the queue that is not the current
\* one removes exactly that entry, leaves the session as it was, moves a
\* current index after index down by one and leaves any other where it
\* was, so that the same entry stays the current one.
C3_RemoveOtherKeepsCurrent ==
    ( /\ Observed("queue_remove")
      /\ Arg(1) < Len(pre.queue)
      /\ pre.cur_track_index # Some(Arg(1)) )
    => /\ player.queue = Without(pre.queue, Arg(1))
       /\ player.sink = pre.sink
       /\ player.duration = pre.duration
       /\ player.cur_track = pre.cur_track
       /\ player.cur_track_index =
              IF IsSome(pre.cur_track_index) /\ Unwrap(pre.cur_track_index) > Arg(1)
              THEN Some(Unwrap(pre.cur_track_index) - 1)
              ELSE pre.cur_track_index
       /\ InQueue(pre) => InQueue(player) /\ Current(player) = Current(pre)

C3_Witness ==
    /\ Observed("queue_remove")
    /\ result = "Ok"
    /\ InQueue(pre)
    /\ Unwrap(pre.cur_track_index) > Arg(1)
    /\ pre.cur_track = Some(Current(pre))
    /\ IsSome(pre.sink)

\* C4: queue_remove on an empty queue returns EmptyQueue and changes
\* nothing.
C4_RemoveFromEmptyQueue ==
    (Observed("queue_remove") /\ pre.queue = << >>)
    => /\ result = "EmptyQueue"
       /\ player = pre

C4_Witness ==
    /\ Observed("queue_remove")
    /\ pre.queue = << >>
    /\ result = "EmptyQueue"

\* C5: no engine operation panics, whatever index it is given and whatever
\* the queue holds.
C5_NoPanic == result # "Panic"

\* C6: queue_shuffle leaves a queue of the same length holding the same
\* entries, and neither reloads nor stops the session.
C6_ShufflePermutes ==
    Observed("queue_shuffle")
    => /\ SameEntries(player.queue, pre.queue)
       /\ player.sink = pre.sink
       /\ player.duration = pre.duration
       /\ result = "Ok"

C6_Witness ==
    /\ Observed("queue_shuffle")
    /\ Len(pre.queue) = MaxQueue
    /\ player.queue # pre.queue
    /\ playstate(pre) = "Playing"

\* C7: with a current entry, queue_shuffle leaves the current index at the
\* new position of that very entry, also when the queue holds other
\* entries for the same track, leaves the current track as it was, and
\* elapsed the sum of the durations before the new index.
C7_ShuffleFollowsCurrentEntry ==
    ( /\ Observed("queue_shuffle")
      /\ InQueue(pre)
      /\ pre.cur_track = Some(Current(pre)) )
    => /\ InQueue(player)
       /\ Current(player) = Current(pre)
       /\ player.cur_track = pre.cur_track
       /\ player.elapsed = ElapsedBefore(player.queue, Unwrap(player.cur_track_index))

\* C8: queue_move_to, for every from, to and current index, leaves the
\* current index at the entry it pointed at before the move.
C8_MoveFollowsCurrentEntry ==
    ( /\ Observed("queue_move_to")
      /\ Arg(1) < Len(pre.queue)
      /\ InQueue(pre) )
    => /\ InQueue(player)
       /\ Current(player) = Current(pre)

\* The index queue_move_to(from, to) moves to: to, clamped to the last
\* index of q.
Clamped(q, to) == IF to < Len(q) THEN to ELSE Len(q) - 1

\* C9: queue_move_to(from, to) returns NoTrack and leaves the queue and the
\* current index as they were when from >= len; otherwise the moved entry
\* ends at to clamped to [0, len - 1], the other entries keep their
\* order, and the queue keeps its length and its entries.
C9_MoveToPosition ==
    Observed("queue_move_to")
    => IF Arg(1) >= Len(pre.queue)
       THEN /\ result = "NoTrack"
            /\ player.queue = pre.queue
            /\ player.cur_track_index = pre.cur_track_index
       ELSE /\ result # "NoTrack"
            /\ Len(player.queue) = Len(pre.queue)
            /\ player.queue[Clamped(pre.queue, Arg(2)) + 1] = pre.queue[Arg(1) + 1]
            /\ Without(player.queue, Clamped(pre.queue, Arg(2))) =
                   Without(pre.queue, Arg(1))
            /\ SameEntries(player.queue, pre.queue)

C9_Witness ==
    /\ Observed("queue_move_to")
    /\ result = "Ok"
    /\ Len(pre.queue) = MaxQueue
    /\ Arg(1) = 0
    /\ Arg(2) >= Len(pre.queue)
    /\ player.queue[Len(pre.queue)] = pre.queue[1]

\* C10: play_next with the current index the last index of the queue and
\* the loop mode None returns NoMore and leaves the current index, the
\* current track, the queue and the audio backend as they were.
C10_NoMoreAtEnd ==
    ( /\ Observed("play_next")
      /\ pre.queue # << >>
      /\ pre.cur_track_index = Some(Len(pre.queue) - 1)
      /\ pre.loopstate = "None" )
    => /\ result = "NoMore"
       /\ player.cur_track_index = pre.cur_track_index
       /\ player.cur_track = pre.cur_track
       /\ player.queue = pre.queue
       /\ player.sink = pre.sink
       /\ player.duration = pre.duration

C10_Witness ==
    /\ Observed("play_next")
    /\ Len(pre.queue) > 1
    /\ pre.cur_track_index = Some(Len(pre.queue) - 1)
    /\ pre.cur_track = Some(Current(pre))
    /\ pre.loopstate = "None"
    /\ playstate(pre) = "Playing"
    /\ result = "NoMore"

----------------------------------------------------------------------------
(* Properties of the playback commands *)

\* The audio backend refused to open or decode the file during the
\* observed call.
BackendFailed == result \in {"Io", "Play"}

\* The current index of the player before the observed call is the last
\* index of its queue.
AtLast ==
    /\ pre.queue # << >>
    /\ pre.cur_track_index = Some(Len(pre.queue) - 1)

\* C11: play_next with the current index the last index of the queue and
\* the loop mode Queue leaves, unless the audio backend fails, the current
\* index at 0 with the first entry of the queue loaded and playing, and the
\* queue in the order it had.
C11_RepeatQueueAtEnd ==
    ( /\ Observed("play_next")
      /\ AtLast
      /\ pre.loopstate = "Queue"
      /\ ~BackendFailed )
    => /\ result = "Ok"
       /\ player.cur_track_index = Some(0)
       /\ player.cur_track = Some(pre.queue[1])
       /\ playstate(player) = "Playing"
       /\ player.duration = Some(duration(pre.queue[1]))
       /\ player.queue = pre.queue

C11_Witness ==
    /\ Observed("play_next")
    /\ AtLast
    /\ Len(pre.queue) > 1
    /\ pre.cur_track = Some(Current(pre))
    /\ pre.loopstate = "Queue"
    /\ result = "Ok"

\* C12: play_next at the last index of the queue with the loop mode Shuffle
\* shuffles the queue and then plays index 0: unless the audio backend
\* fails, the queue holds the entries it held, the current index is 0 and
\* the loaded entry is the first entry of the shuffled queue.
C12_RepeatShuffledAtEnd ==
    ( /\ Observed("play_next")
      /\ AtLast
      /\ pre.loopstate = "Shuffle"
      /\ ~BackendFailed )
    => /\ result = "Ok"
       /\ SameEntries(player.queue, pre.queue)
       /\ player.cur_track_index = Some(0)
       /\ player.cur_track = Some(player.queue[1])
       /\ player.duration = Some(duration(player.queue[1]))
       /\ playstate(player) = "Playing"

C12_Witness ==
    /\ Observed("play_next")
    /\ AtLast
    /\ pre.loopstate = "Shuffle"
    /\ result = "Ok"
    /\ Len(pre.queue) > 1
    /\ player.queue # pre.queue

\* C13: play_next without a current index returns NotPlaying and changes
\* nothing; with a current index i that is not the last one it plays
\* index i + 1 under every loop mode: unless the audio backend fails, the
\* current index is i + 1 and the entry at i + 1 is loaded.
C13_PlayNextAdvances ==
    Observed("play_next")
    => IF pre.cur_track_index = None
       THEN result = "NotPlaying" /\ player = pre
       ELSE (Unwrap(pre.cur_track_index) + 1 < Len(pre.queue) /\ ~BackendFailed)
            => /\ result = "Ok"
               /\ player.cur_track_index = Some(Unwrap(pre.cur_track_index) + 1)
               /\ player.cur_track = Some(pre.queue[Unwrap(pre.cur_track_index) + 2])
               /\ player.duration =
                      Some(duration(pre.queue[Unwrap(pre.cur_track_index) + 2]))
               /\ player.queue = pre.queue

C13_Witness ==
    /\ Observed("play_next")
    /\ InQueue(pre)
    /\ Unwrap(pre.cur_track_index) + 1 < Len(pre.queue)
    /\ pre.loopstate # "None"
    /\ result = "Ok"

\* C14: play_prev without a current index returns NotPlaying; with the
\* current index 0 it returns NoMore and changes nothing under every loop
\* mode; with a current index i > 0 it plays index i - 1.
C14_PlayPrev ==
    Observed("play_prev")
    => IF pre.cur_track_index = None
       THEN result = "NotPlaying" /\ player = pre
       ELSE IF pre.cur_track_index = Some(0)
       THEN result = "NoMore" /\ player = pre
       ELSE (Unwrap(pre.cur_track_index) - 1 < Len(pre.queue) /\ ~BackendFailed)
            => /\ result = "Ok"
               /\ player.cur_track_index = Some(Unwrap(pre.cur_track_index) - 1)
               /\ player.cur_track = Some(pre.queue[Unwrap(pre.cur_track_index)])
               /\ player.queue = pre.queue

C14_Witness ==
    /\ Observed("play_prev")
    /\ pre.cur_track_index = Some(0)
    /\ Len(pre.queue) > 1
    /\ pre.loopstate # "None"
    /\ result = "NoMore"

\* The volume the session is to play at: 0 when muted, else the stored
\* volume.
EffectiveVolume(p) == IF p.muted THEN 0 ELSE p.volume

\* A session that has just been loaded and plays at volume v.
FreshSession(v) == Some([NewSink EXCEPT !.volume = v])

\* C15: play(index) with index >= len returns NoTrack and changes nothing;
\* with index inside the queue and the load succeeding, a new session
\* replaces the previous one and plays at the effective volume, the current
\* index is index, the loaded entry is the entry at index, and elapsed is
\* the sum of the durations before index.
C15_Play ==
    Observed("play")
    => IF Arg(1) >= Len(pre.queue)
       THEN result = "NoTrack" /\ player = pre
       ELSE ~BackendFailed
            => /\ result = "Ok"
               /\ player.sink = FreshSession(EffectiveVolume(pre))
               /\ player.duration = Some(duration(pre.queue[Arg(1) + 1]))
               /\ player.cur_track_index = Some(Arg(1))
               /\ player.cur_track = Some(pre.queue[Arg(1) + 1])
               /\ player.elapsed = ElapsedBefore(pre.queue, Arg(1))
               /\ player.queue = pre.queue

C15_Witness ==
    /\ Observed("play")
    /\ result = "Ok"
    /\ Arg(1) > 0
    /\ IsSome(pre.sink)
    /\ pre.muted
    /\ pre.cur_track_index # Some(Arg(1))

\* C16: resume with the session ended loads the current index again, so
\* that, unless the audio backend fails, the track that was loaded starts
\* over from position zero and the current index stays; with the session
\* paused it resumes that session without loading anything; without a
\* session it returns NoAudio and changes nothing.
C16_Resume ==
    Observed("resume")
    => CASE playstate(pre) = "Ended" ->
                (IsSome(pre.cur_track_index) /\ ~BackendFailed)
                => /\ result = "Ok"
                   /\ player.cur_track_index = pre.cur_track_index
                   /\ IsSome(player.cur_track)
                   /\ Unwrap(player.cur_track).id = Unwrap(pre.cur_track).id
                   /\ player.sink = FreshSession(EffectiveVolume(pre))
         [] playstate(pre) = "Paused" ->
                /\ result = "Ok"
                /\ player = [pre EXCEPT !.sink[1].paused = FALSE]
         [] playstate(pre) = "Stopped" ->
                /\ result = "NoAudio"
                /\ player = pre
         [] OTHER -> TRUE

\* C17: stop returns Ok when a session is loaded and NoAudio otherwise;
\* either way the current index and the loaded entry are None afterwards,
\* no session is loaded, and the queue is as it was.
C17_Stop ==
    Observed("stop")
    => /\ result = IF IsSome(pre.sink) THEN "Ok" ELSE "NoAudio"
       /\ player.cur_track_index = None
       /\ player.cur_track = None
       /\ player.sink = None
       /\ playstate(player) = "Stopped"
       /\ player.queue = pre.queue

C17_Witness ==
    /\ Observed("stop")
    /\ result = "Ok"
    /\ InQueue(pre)
    /\ Len(pre.queue) > 1
    /\ playstate(pre) = "Playing"

\* The position a seek of the observed kind is to reach from the player
\* before the call: never below zero, never past one second before the end.
SeekTarget ==
    LET last == Unwrap(pre.duration) - 1
        want == CASE Observed("seek_forward")  -> pos(pre) + Arg(1)
                  [] Observed("seek_backward") ->
                         IF pos(pre) > Arg(1) THEN pos(pre) - Arg(1) ELSE 0
                  [] OTHER                     -> Arg(1)
    IN  IF want > last THEN last ELSE want

\* C18: seek, seek_forward and seek_backward return NoAudio and change
\* nothing without a session; with one, the position they reach is never
\* below zero and never above the duration less one second: a backward
\* seek stops at zero, a forward seek at duration - 1.
C18_SeekClamped ==
    (Observed("seek") \/ Observed("seek_forward") \/ Observed("seek_backward"))
    => IF pre.sink = None
       THEN result = "NoAudio" /\ player = pre
       ELSE /\ result \in {"Ok", "Seek"}
            /\ result = "Seek" => player = pre
            /\ result = "Ok" =>
                   /\ pos(player) = SeekTarget
                   /\ pos(player) >= 0
                   /\ pos(player) <= Unwrap(pre.duration) - 1
                   /\ player = [pre EXCEPT !.sink[1].pos = SeekTarget]

\* C19: the stored volume is always inside [0, MAX_VOLUME]: set_volume,
\* volume_up and volume_down store their argument clamped to that range,
\* with or without a session.
C19_VolumeInRange ==
    /\ player.volume # NaN
    /\ player.volume >= 0
    /\ player.volume <= MAX_VOLUME

\* C20: whenever a session is loaded it plays at the effective volume: 0
\* when the mute flag is set, else the stored volume; whatever the calls
\* that came before, with or without a session.
C20_SessionAtEffectiveVolume ==
    IsSome(player.sink) => Unwrap(player.sink).volume = EffectiveVolume(player)

\* A session loaded after the mute flag was set without one.
C20_Witness ==
    /\ Observed("play_playlist")
    /\ result = "Ok"
    /\ pre.sink = None
    /\ pre.muted
    /\ pre.volume # 100
    /\ Unwrap(player.sink).volume = 0

----------------------------------------------------------------------------
(* Properties of the volume, the aggregates and the loop mode *)

\* C21: set_muted and mute_toggle leave the stored volume as it was; and
\* with a session loaded, set_muted(true) followed by set_volume(x) and
\* set_muted(false) leaves the session playing at x clamped to
\* [0, MAX_VOLUME], which is then the stored and the effective volume.
C21_MuteKeepsVolume ==
    /\ (Observed("set_muted") \/ Observed("mute_toggle"))
       => player.volume = pre.volume
    /\ (Observed("set_muted") /\ Arg(1) = TRUE /\ IsSome(pre.sink))
       => \A x \in VolumeArgs :
              LET set     == set_volume(player, x, FALSE)
                  unmuted == set_muted(set.p, FALSE)
              IN  /\ set.r = "Ok"
                  /\ set.p.muted
                  /\ unmuted.r = "Ok"
                  /\ unmuted.p.volume = FClamp(x, 0, MAX_VOLUME)
                  /\ EffectiveVolume(unmuted.p) = FClamp(x, 0, MAX_VOLUME)
                  /\ Unwrap(unmuted.p.sink).volume = FClamp(x, 0, MAX_VOLUME)

C21_Witness ==
    /\ Observed("set_muted")
    /\ Arg(1) = TRUE
    /\ result = "Ok"
    /\ playstate(pre) = "Playing"
    /\ ~pre.muted
    /\ pre.volume = 90
    /\ Unwrap(player.sink).volume = 0
    /\ player.volume = 90

\* C22: in every state the engine is left in, elapsed is the sum of the
\* durations of the queue entries before the current index, and zero
\* without a current index.
C22_ElapsedInvariant ==
    result # "Panic"
    => player.elapsed =
           IF IsSome(player.cur_track_index)
           THEN ElapsedBefore(player.queue,
                              Min(Unwrap(player.cur_track_index), Len(player.queue)))
           ELSE 0

\* C23: in every state the engine is left in, also by a call that returned
\* an error, queue_dur is the sum of the durations of the entries of the
\* queue.
C23_QueueDurInvariant ==
    result # "Panic" => player.queue_dur = SumDuration(player.queue)

\* The loop mode after m in the order None, Queue, Shuffle, None, and the
\* loop status the snapshot shows for m.
LoopOrder == <<"None", "Queue", "Shuffle">>
After(m) == LoopOrder[((CHOOSE i \in 1..3 : LoopOrder[i] = m) % 3) + 1]
Mirror(m) == IF m = "None" THEN "None" ELSE "Playlist"

\* C24: the loop modes form the cycle None, Queue, Shuffle, None:
\* cycle_next follows it, cycle_prev undoes cycle_next and cycle_next
\* undoes cycle_prev, three calls of cycle_loopstate come back to the mode
\* they started from, and set_loop and cycle_loopstate change the loop mode
\* and the loop status of the snapshot and nothing else.
C24_LoopCycle ==
    LET m     == player.loopstate
        once  == cycle_loopstate(player, FALSE).p
        twice == cycle_loopstate(once, FALSE).p
        third == cycle_loopstate(twice, FALSE).p
    IN  /\ cycle_next(m) = After(m)
        /\ cycle_prev(cycle_next(m)) = m
        /\ cycle_next(cycle_prev(m)) = m
        /\ once.loopstate # m /\ twice.loopstate \notin {m, once.loopstate}
        /\ third = player
        /\ Observed("cycle_loopstate")
           => /\ result = "Ok"
              /\ player = [pre EXCEPT !.loopstate = After(pre.loopstate),
                                      !.state.loopstatus = Mirror(After(pre.loopstate))]
        /\ Observed("set_loop")
           => /\ result = "Ok"
              /\ player = [pre EXCEPT !.loopstate = Arg(1),
                                      !.state.loopstatus = Mirror(Arg(1))]

C24_Witness ==
    /\ Observed("cycle_loopstate")
    /\ pre.loopstate = "Shuffle"
    /\ player.loopstate = "None"
    /\ pre.state.loopstatus = "Playlist"
    /\ player.state.loopstatus = "None"
    /\ playstate(pre) = "Playing"

----------------------------------------------------------------------------
(* Properties of the calling layer and of the tick *)

\* The observed step is a call made for a key command or a remote action,
\* not a tick and not a move of the audio backend.
Commanded == op.name \notin {"new", "drain", "advance", "handle_tick"}

\* C25: a key command or remote action that fails with NoAudio, NoTrack,
\* NoPlaylist, NoMore, EmptyQueue or NotPlaying shows no notification, and
\* one that fails with Io, Play or Seek shows an error notification.
C25_SilentErrors ==
    Commanded
    => /\ result \in {"NoAudio", "NoTrack", "NoPlaylist", "NoMore",
                      "EmptyQueue", "NotPlaying"}
          => catch_error(result) = None
       /\ result \in {"Io", "Play", "Seek"} => IsSome(catch_error(result))

\* The session of p has ended and no tick has called play_next for it.
EndedUnadvanced(p) ==
    /\ IsSome(p.cur_track)
    /\ playstate(p) = "Ended"
    /\ Unwrap(p.sink).advanced = None

\* C26: when the session of the current track has ended and no tick has
\* yet called play_next for it, the next tick calls play_next, whatever
\* commands came before; so when the track is not the last one of the
\* queue and the load succeeds, the tick leaves the next entry current
\* and playing.
C26_AutoAdvance ==
    (Observed("handle_tick") /\ EndedUnadvanced(pre))
    => /\ TickAdvances(pre)
       /\ ( /\ InQueue(pre)
            /\ Unwrap(pre.cur_track_index) + 1 < Len(pre.queue)
            /\ playstate(player) = "Playing" )
          => /\ player.cur_track_index = Some(Unwrap(pre.cur_track_index) + 1)
             /\ player.cur_track = Some(pre.queue[Unwrap(pre.cur_track_index) + 2])

\* The player p with its session run to the end of the track.
Drained(p) == [p EXCEPT !.sink[1].empty = TRUE]

\* C27: a tick does not call play_next for a session that a tick already
\* called it for, as long as the current index is the one that tick
\* advanced from: it leaves the session, the current index and the queue
\* as they are; and when the play_next of a tick starts the queue over at
\* the index it advanced from (a queue of one entry under a loop mode that
\* repeats), the tick after the end of the new session calls play_next
\* again.
C27_NoDoubleAdvance ==
    Observed("handle_tick")
    => /\ ( /\ IsSome(pre.sink)
            /\ IsSome(pre.cur_track_index)
            /\ Unwrap(pre.sink).advanced = pre.cur_track_index )
          => /\ ~TickAdvances(pre)
             /\ player.sink = pre.sink
             /\ player.cur_track_index = pre.cur_track_index
             /\ player.last_track_index = pre.last_track_index
             /\ player.queue = pre.queue
       /\ ( /\ TickAdvances(pre)
            /\ pre.loopstate # "None"
            /\ player.cur_track_index = pre.cur_track_index
            /\ playstate(player) = "Playing" )
          => /\ Unwrap(player.sink).advanced = None
             /\ TickAdvances(Drained(player))

\* The second tick after the last track of the queue ended.
C27_Witness ==
    /\ Observed("handle_tick")
    /\ playstate(pre) = "Ended"
    /\ Len(pre.queue) > 1
    /\ pre.cur_track_index = Some(Len(pre.queue) - 1)
    /\ pre.cur_track = Some(Current(pre))
    /\ pre.loopstate = "None"
    /\ Unwrap(pre.sink).advanced = pre.cur_track_index
    /\ playstate(player) = "Ended"

\* The play status the snapshot is to show for p, Ended shown as Stopped,
\* and the snapshot of p showing the status and the position of p.
Status(p) == IF playstate(p) = "Ended" THEN "Stopped" ELSE playstate(p)
InSync(p) ==
    /\ p.state.playstatus = Status(p)
    /\ p.state.pos = pos(p)

\* The observed call wrote the play status or the position of the
\* snapshot, which only a call holding the snapshot mutex does.
WroteSnapshot ==
    \/ player.state.playstatus # pre.state.playstatus
    \/ player.state.pos # pre.state.pos

\* C28: a tick that acquired the snapshot mutex leaves the snapshot showing
\* the status and the position the engine has when the tick ends, after
\* the play_next the tick may have made.
C28_SnapshotAfterAdvance ==
    (Observed("handle_tick") /\ WroteSnapshot) => InSync(player)

\* The commands that change what the engine plays or the queue.
Mutating ==
    { "play", "play_playlist", "play_next", "play_prev", "resume", "pause",
      "toggle", "stop", "seek", "seek_forward", "seek_backward",
      "queue_add_playlist", "queue_add_from_playlist", "queue_set",
      "queue_clear", "queue_shuffle", "queue_remove", "queue_move_to" }

\* C29: when a command that changes the engine has been handled and the
\* main loop turns to the next message, the snapshot shows the status and
\* the position of the engine; stated for a command that found the
\* snapshot showing them and did not abort.
C29_ReconciledAfterCommand ==
    (op.name \in Mutating /\ InSync(pre) /\ result # "Panic") => InSync(player)

\* C30: no call of the engine waits for the snapshot mutex: where the
\* engine touches the snapshot it tries the mutex and goes on without the
\* update when the remote-control thread holds it.
C30_EngineNeverWaits == ~op.waited

----------------------------------------------------------------------------
(* Properties of the snapshot and of the remote surface *)

\* The observed tick found the snapshot mutex held at its try_lock, and at
\* the try_lock of the play it made.
TickHeld == Observed("handle_tick") /\ op.held[1]
PlayHeld == Observed("handle_tick") /\ op.held[2]

\* The index play_next loads from the current index of p.
NextIndex(p) ==
    IF current_is_last(p) THEN 0 ELSE Unwrap(p.cur_track_index) + 1

\* C31: a tick that finds the snapshot mutex held does not wait for it and
\* leaves the status and the position of the snapshot as they were, and
\* the whole snapshot when the mutex is still held as its play_next loads
\* a track; it still makes the ended-track check: when the session of the
\* current track has ended and was not advanced from, the tick notes the
\* index and calls play_next, which leaves the next entry playing or, when
\* it fails, the index noted; otherwise the tick leaves the engine as it
\* was.
C31_LockedTickSkips ==
    TickHeld
    => /\ ~op.waited
       /\ ~WroteSnapshot
       /\ PlayHeld => player.state = pre.state
       /\ TickAdvances(pre)
          => \/ /\ playstate(player) = "Playing"
                /\ player.cur_track_index = Some(NextIndex(pre))
             \/ /\ playstate(player) # "Playing"
                /\ player.last_track_index = pre.cur_track_index
                /\ Unwrap(player.sink).advanced = pre.cur_track_index
       /\ ~TickAdvances(pre) => [player EXCEPT !.state = pre.state] = pre

\* A tick after the first track ended, the mutex held all through it: the
\* snapshot still shows the first track playing while the second plays.
C31_Witness ==
    /\ TickHeld
    /\ PlayHeld
    /\ TickAdvances(pre)
    /\ pre.state.playstatus = "Playing"
    /\ playstate(player) = "Playing"
    /\ player.cur_track_index = Some(1)
    /\ player.state = pre.state
    /\ player.state.metadata.trackid # Some(Unwrap(player.cur_track).id)

\* The channel when the observed method of the server or turn of the main
\* loop started, and the message that turn received.
ChannelBefore == Arg(1)
Received == Arg(2)

\* The methods of the server that send a command, and the commands sent
\* since the observed call started.
Senders ==
    { "Server.play", "Server.pause", "Server.stop", "Server.play_pause",
      "Server.seek", "Server.next", "Server.previous", "Server.set_shuffle",
      "Server.set_volume" }
Sent == SubSeq(channel, Len(ChannelBefore) + 1, Len(channel))

\* C32: a method of the remote-control server leaves the engine, the queue
\* and the snapshot as they were and the messages of the channel in place;
\* a method that reads the snapshot sends nothing, and a method that sends
\* adds one command at the end of the channel (set_shuffle(false) none);
\* a turn of the main loop handles the oldest message of the channel and
\* takes that one message out, so the engine is changed by one message at
\* a time in the order they were sent.
C32_SingleWriter ==
    /\ op.name \in ServerMethods
       => /\ player = pre
          /\ Len(channel) >= Len(ChannelBefore)
          /\ SubSeq(channel, 1, Len(ChannelBefore)) = ChannelBefore
          /\ op.name \notin Senders => Sent = << >>
          /\ op.name \in Senders
             => /\ Len(Sent) <= 1
                /\ Len(Sent) = 0 => (op.name = "Server.set_shuffle" /\ ~Arg(2))
                /\ \A i \in DOMAIN Sent : Sent[i].kind = "Server"
    /\ Observed("recv")
       => /\ ChannelBefore # << >>
          /\ Received = Head(ChannelBefore)
          /\ channel = Tail(ChannelBefore)

\* The main loop handles the older of two different messages, which
\* changes the engine, and leaves the newer one in the channel.
C32_Witness ==
    /\ Observed("recv")
    /\ Len(ChannelBefore) = 2
    /\ ChannelBefore[1] # ChannelBefore[2]
    /\ Received.kind = "Server"
    /\ player # pre
    /\ channel = <<ChannelBefore[2]>>

\* What the environment may answer during a call on player p.
EnvsOf(p) ==
    [ io : {"Ok", "Io", "Play", "Seek"}, perm : Perms(Len(p.queue)),
      locked : BOOLEAN, tick_locked : {FALSE} ]

\* The observed call left the player and returned the result that ret
\* holds.
Is(ret) == player = ret.p /\ result = ret.r

\* The ServerAction each sending method of the server sends.
ActionOf(method) ==
    CASE method = "Server.play"        -> "Play"
      [] method = "Server.pause"       -> "Pause"
      [] method = "Server.stop"        -> "Stop"
      [] method = "Server.play_pause"  -> "PlayPause"
      [] method = "Server.seek"        -> "Seek"
      [] method = "Server.next"        -> "Next"
      [] method = "Server.previous"    -> "Prev"
      [] method = "Server.set_shuffle" -> "Shuffle"
      [] method = "Server.set_volume"  -> "Volume"

\* C33: the main loop handles a remote action with one call of the engine:
\* Play with resume, Pause with pause, Stop with stop, PlayPause with
\* toggle, Next with play_next, Prev with play_prev, Shuffle with
\* queue_shuffle, Volume(v) with set_volume(v), Seek(offset) with
\* seek_forward(|offset|) when the offset is positive and
\* seek_backward(|offset|) when it is negative, and with no call when it is
\* zero; and each method of the server sends the action of its name, with
\* the offset or the volume it was given.
C33_RemoteTranslation ==
    /\ (Observed("recv") /\ Received.kind = "Server")
       => LET a == Received.action
              v == Received.arg
          IN  \E e \in EnvsOf(pre) :
                  CASE a = "Play"      -> Is(resume(pre, e))
                    [] a = "Pause"     -> Is(pause(pre))
                    [] a = "Stop"      -> Is(stop(pre))
                    [] a = "PlayPause" -> Is(toggle(pre, e))
                    [] a = "Next"      -> Is(play_next(pre, e))
                    [] a = "Prev"      -> Is(play_prev(pre, e))
                    [] a = "Shuffle"   -> Is(Ret(queue_shuffle(pre, e.perm), "Ok"))
                    [] a = "Volume"    -> Is(set_volume(pre, v, e.locked))
                    [] a = "Seek" /\ v > 0 -> Is(seek_forward(pre, v, e.io))
                    [] a = "Seek" /\ v < 0 -> Is(seek_backward(pre, 0 - v, e.io))
                    [] a = "Seek" /\ v = 0 -> Is(Ret(pre, "Ok"))
    /\ (op.name \in Senders /\ Sent # << >>)
       => /\ Sent[1].action = ActionOf(op.name)
          /\ op.name \in {"Server.seek", "Server.set_volume"} => Sent[1].arg = Arg(2)

\* The main loop handles Next while the first of two entries plays: the
\* second is left playing.
C33_Witness ==
    /\ Observed("recv")
    /\ Received = UpdateKind_Server("Next", 0)
    /\ pre.cur_track_index = Some(0)
    /\ playstate(pre) = "Playing"
    /\ result = "Ok"
    /\ player.cur_track_index = Some(1)
    /\ playstate(player) = "Playing"

\* The value the observed getter of the server returned.
Reported == Arg(2)

\* C34: the LoopStatus the server reports is the mirror of the loop mode
\* of the engine: None for None, Playlist for Queue and for Shuffle.
C34_LoopStatusMirrors ==
    Observed("Server.loop_status") => Reported = Mirror(pre.loopstate)

\* A volume of the engine, in [0, MAX_VOLUME], on the scale [0, 1] of the
\* remote side, and a volume of the remote side on the scale of the engine.
ToRemote(v) == (v * 100) \div MAX_VOLUME
ToEngine(f) == (f * MAX_VOLUME) \div 100

\* C35: the Volume the server reports lies in [0, 1] and is the effective
\* volume of the engine on the remote scale, 0 while muted and the stored
\* volume rescaled otherwise; and a remote Volume(f) with f in [0, 1] is
\* stored rescaled onto [0, MAX_VOLUME].
C35_RemoteVolume ==
    /\ Observed("Server.volume")
       => /\ Reported \in 0..100
          /\ Reported = IF pre.muted THEN 0 ELSE ToRemote(pre.volume)
    /\ ( /\ Observed("recv")
         /\ Received.action = "Volume"
         /\ Received.arg \in 0..100 )
       => player.volume = ToEngine(Received.arg)

\* The metadata that describes the track of entry t: its id, with which go
\* its title and album, its length, and its artist, None without the tag.
Describes(t) ==
    [trackid |-> Some(t.id), length |-> Some(duration(t)),
     artist |-> TrackArtist(t.id)]

\* C36: whenever an entry is current, the metadata of the snapshot
\* describes the track of that entry; so it does after every play that
\* returned Ok.
C36_MetadataOfCurrent ==
    IsSome(player.cur_track)
    => player.state.metadata = Describes(Unwrap(player.cur_track))

----------------------------------------------------------------------------
(* Properties of failing calls *)

\* The tracks of the entries of q and the playlists they are tagged with.
Tags(q) == [i \in DOMAIN q |-> [id |-> q[i].id, pl |-> q[i].pl]]

\* The contents the observed queue_set or queue_clear was to leave.
NewContents == IF Observed("queue_set") THEN Arg(1) ELSE << >>

\* C37: queue_clear and queue_set leave the queue holding the new contents
\* (nothing for clear), no current index, no loaded entry, no session and
\* queue_dur the sum over the new contents, whatever they return; and they
\* return Ok when a session was loaded before the call and NoAudio when
\* none was.
C37_SetAndClearApply ==
    op.name \in {"queue_set", "queue_clear"}
    => /\ Tags(player.queue) = Tags(NewContents)
       /\ player.cur_track_index = None
       /\ player.cur_track = None
       /\ player.sink = None
       /\ player.queue_dur = SumDuration(NewContents)
       /\ result = IF IsSome(pre.sink) THEN "Ok" ELSE "NoAudio"

\* queue_set replaces a queue of playlist entries while nothing is loaded:
\* it returns NoAudio and the queue holds the new entries.
C37_Witness ==
    /\ Observed("queue_set")
    /\ pre.sink = None
    /\ pre.queue # << >>
    /\ NewContents # << >>
    /\ Tags(pre.queue) # Tags(NewContents)
    /\ result = "NoAudio"
    /\ Tags(player.queue) = Tags(NewContents)
    /\ player.queue_dur > 0

\* C38: a play that fails with NoTrack, Io or Play leaves the current
\* index, the loaded entry, the index the tick last advanced from and the
\* playstate of the session as they were, so a tick after it calls
\* play_next only if a tick before it would have.
C38_FailedPlayKeepsEngine ==
    (Observed("play") /\ result \in {"NoTrack", "Io", "Play"})
    => /\ player.cur_track_index = pre.cur_track_index
       /\ player.cur_track = pre.cur_track
       /\ player.last_track_index = pre.last_track_index
       /\ playstate(player) = playstate(pre)
       /\ TickAdvances(player) => TickAdvances(pre)

\* The tracks of playlist k, each tagged with k.
PlaylistTags(k) ==
    [i \in DOMAIN playlists[k + 1] |-> [id |-> playlists[k + 1][i], pl |-> k]]

\* C39: play_playlist(p, t) that returns Ok leaves the queue holding the
\* tracks of playlist p in the order of the playlist, each tagged with p,
\* and t the current index; one that returns an error leaves the queue,
\* queue_dur, the current index and the loaded entry as they were.
C39_PlayPlaylistAllOrNothing ==
    Observed("play_playlist")
    => IF result = "Ok"
       THEN /\ Tags(player.queue) = PlaylistTags(Arg(1))
            /\ player.cur_track_index = Some(Arg(2))
       ELSE /\ player.queue = pre.queue
            /\ player.queue_dur = pre.queue_dur
            /\ player.cur_track_index = pre.cur_track_index
            /\ player.cur_track = pre.cur_track

----------------------------------------------------------------------------
(* The indicators of a loaded track *)

\* C40: in every state a session exists, that is the playstate is not
\* Stopped, exactly when cur_track_index is Some, and exactly when
\* cur_track is Some.
C40_LoadedIndicatorsAgree ==
    /\ (playstate(player) # "Stopped") = IsSome(player.cur_track_index)
    /\ IsSome(player.cur_track_index) = IsSome(player.cur_track)

\* A play whose load failed in the decoder while a track was loaded: the
\* stopped session is still there, and so are the index and the entry.
C40_Witness ==
    /\ Observed("play")
    /\ result = "Play"
    /\ playstate(pre) = "Playing"
    /\ playstate(player) = "Ended"
    /\ IsSome(player.cur_track_index)
    /\ IsSome(player.cur_track)

====
